---- MODULE Spec2Model ----
(***************************************************************************)
(* Model of the task scheduling and execution engine of                    *)
(* src/app/services/cron_service.py (class CronService): the dispatcher    *)
(* queue, the single-consumer worker loop (_process_queue), the execution  *)
(* of one task (_execute_task), the bounded history, cancellation          *)
(* (stop_task) and the start/stop lifecycle.                               *)
(*                                                                         *)
(* The service runs on an asyncio event loop: a coroutine runs without     *)
(* interruption between two awaits.  Every action below is one such        *)
(* uninterrupted segment.  The suspension points of the code are           *)
(*   - the worker in wait_for(task_queue.get())        (line 170)          *)
(*   - the worker in `await task`                      (line 191)          *)
(*   - an asynchronous handler inside `await handler`  (line 239)          *)
(*   - stop() in `await self._worker_task`             (line 145)          *)
(*   - stop() in `await task`                          (line 153)          *)
(* and a task made by asyncio.create_task has not run at all until the     *)
(* loop gives it its first step.                                           *)
(***************************************************************************)
EXTENDS Integers, Sequences, FiniteSets, TLC

\* ---------------------------------------------------------------- bounds
\* TaskInfo objects created over a run (accepted add_task calls).
MaxTasks == 2
\* Worker loops created over a run (effective start() calls).
MaxStarts == 2
\* History capacity. The constructor sets 100 (line 76); the attribute is
\* public and the model runs the same trimming code with a small capacity.
max_history == 1

\* Job objects made over a run (accepted add_*_job calls).
MaxJobs == 2
\* Last reading of the clock.
MaxClock == 1
\* Rows of table `tasks`.
MaxRows == 2
\* `total = 100` in run_task: the iterations of its default processing.
total == 2
\* `if i % 10 == 0` in run_task: the progress is committed every so many
\* iterations.
CommitEvery == 2

\* ---------------------------------------------------------------- inputs
TaskIds == {"A", "B"}
TaskTypes == {"job"}
\* The callables register_handler binds a type to: a plain function or a
\* coroutine function.
Handlers == {"plain", "coroutine"}
\* str(e) of the exception a handler raises: any text, the empty one included.
ExcMessages == {"boom", ""}
\* Event loops a start() may be called under; 0 stands for None.
Loops == {1, 2}
None == 0

VARIABLES
    _running,          \* self._running
    scheduler_running, \* self.scheduler is started (APScheduler state)
    _queue_loop,       \* self._queue_loop (None or a loop)
    task_queue,        \* self.task_queue: sequence of TaskInfo references
    _queued_task_ids,  \* self._queued_task_ids (absent attribute = empty)
    running_tasks,     \* self.running_tasks: task_id -> asyncio.Task
    task_history,      \* self.task_history: sequence of TaskInfo references
    _task_handlers,    \* self._task_handlers: task type -> handler
    tasks,             \* the TaskInfo objects, by creation order
    execs,             \* the asyncio.Task of _execute_task for each TaskInfo
    workers,           \* the asyncio.Tasks of _process_queue, by creation
    _worker_task,      \* self._worker_task (None or a worker)
    stop_pc,           \* position of the pending stop() call
    stop_wait,         \* what the pending stop() call awaits
    stop_pending,      \* rest of list(self.running_tasks.items()) in stop()
    completed,         \* history variable: every TaskInfo ever appended to
                       \* task_history, in the order of the appends
    accepted_stopped,  \* history variable: the TaskInfo objects add_task
                       \* created while _running was false
    now,               \* the reading of the clock, datetime.now()
    pending_jobs,      \* scheduler: the jobs added while it was not started
    jobstore,          \* scheduler: its job store, job id -> Job
    jobs_made,         \* the number of Job objects made so far
    job_result,        \* how the last call on the scheduled jobs ended
    db_tasks,          \* the rows of table `tasks`, as committed: id -> Task
    runners,           \* the run_task(task_id) calls: how far each has come
    cancel_result      \* what the last cancel_task call returned

\* The scheduler's jobs and the clock.
jvars == <<now, pending_jobs, jobstore, jobs_made, job_result>>

\* The dispatcher and its lifecycle.
svars == <<_running, scheduler_running, _queue_loop, task_queue,
           _queued_task_ids, running_tasks, task_history, _task_handlers,
           tasks, execs, workers, _worker_task, stop_pc, stop_wait,
           stop_pending, completed, accepted_stopped>>

\* The database-backed tasks.
dvars == <<db_tasks, runners, cancel_result>>

vars == <<svars, jvars, dvars>>

\* ---------------------------------------------------------------- helpers
\* TaskInfo.__init__
TaskInfo(task_id, task_type) ==
    [task_id |-> task_id, task_type |-> task_type,
     status |-> "pending", started_at |-> "None", finished_at |-> "None",
     result |-> "None", error |-> "None"]

\* An asyncio.Task that asyncio.create_task has not made yet.
NoExec == [step |-> "none", must_cancel |-> FALSE, outcome |-> "none"]

\* asyncio.iscoroutinefunction(handler)
IsCoroutineFunction(handler) == handler = "coroutine"

\* The ValueError text of a missing handler.
NoHandlerError(task_type) ==
    "No handler registered for task type: " \o task_type

\* str(e) of an exception made with the text msg
Str(msg) == msg

\* AppendHistory with the slice taken from the wrong end: the oldest
\* max_history entries are kept.
AppendHistoryKeepOldest(h, t) ==
    LET a == Append(h, t)
    IN  IF Len(a) > max_history THEN SubSeq(a, 1, max_history) ELSE a

\* `finally` of _execute_task: append, then keep the last max_history.
AppendHistory(h, t) ==
    LET a == Append(h, t)
    IN  IF Len(a) > max_history
        THEN SubSeq(a, Len(a) - max_history + 1, Len(a))
        ELSE a

\* dict without one key
DropKey(f, k) == [x \in (DOMAIN f) \ {k} |-> f[x]]
\* dict with one key set
PutKey(f, k, v) == [x \in (DOMAIN f) \cup {k} |-> IF x = k THEN v ELSE f[x]]

\* `while self._running:` evaluated by a worker that goes round the loop.
LoopPc == IF _running THEN "get" ELSE "done"

WorkerFinished(w) == workers[w].pc \in {"done", "cancelled"}
ExecFinished(t) == execs[t].step = "done"

\* The ids of the rows of table `tasks`: the autoincremented primary key.
RowIds == 1..MaxRows

\* A run_task call that has not been made.
NoRunner == [pc |-> "none", i |-> 0]

Init ==
    /\ _running = FALSE
    /\ scheduler_running = FALSE
    /\ _queue_loop = None
    /\ task_queue = <<>>
    /\ _queued_task_ids = {}
    /\ running_tasks = <<>>
    /\ task_history = <<>>
    /\ _task_handlers = <<>>
    /\ tasks = <<>>
    /\ execs = <<>>
    /\ workers = <<>>
    /\ _worker_task = None
    /\ stop_pc = "idle"
    /\ stop_wait = None
    /\ stop_pending = <<>>
    /\ completed = <<>>
    /\ accepted_stopped = {}
    /\ now = 0
    /\ pending_jobs = <<>>
    /\ jobstore = <<>>
    /\ jobs_made = 0
    /\ job_result = "None"
    /\ db_tasks = <<>>
    /\ runners = [id \in RowIds |-> NoRunner]
    /\ cancel_result = "None"

\* ---------------------------------------------------------------- registry
\* register_handler(task_type, handler): the last registration wins
RegisterHandler(task_type, handler) ==
    /\ _task_handlers' = PutKey(_task_handlers, task_type, handler)
    /\ UNCHANGED <<_running, scheduler_running, _queue_loop, task_queue,
                   _queued_task_ids, running_tasks, task_history, tasks,
                   execs, workers, _worker_task, stop_pc, stop_wait,
                   stop_pending, completed, accepted_stopped>>

\* ---------------------------------------------------------------- submit
\* add_task without the `already in queue` check.
AddTaskNoQueueCheck(task_type, task_id) ==
    /\ IF task_id \in DOMAIN running_tasks
       THEN UNCHANGED <<tasks, execs, _queued_task_ids, task_queue,
                        accepted_stopped>>
       ELSE /\ Len(tasks) < MaxTasks
            /\ tasks' = Append(tasks, TaskInfo(task_id, task_type))
            /\ execs' = Append(execs, NoExec)
            /\ _queued_task_ids' = _queued_task_ids \cup {task_id}
            /\ task_queue' = Append(task_queue, Len(tasks) + 1)
            /\ accepted_stopped' =
                   IF _running THEN accepted_stopped
                   ELSE accepted_stopped \cup {Len(tasks) + 1}
    /\ UNCHANGED <<_running, scheduler_running, _queue_loop, running_tasks,
                   task_history, _task_handlers, workers, _worker_task,
                   stop_pc, stop_wait, stop_pending, completed>>

\* add_task(task_type, task_id) with an explicit task_id: the two duplicate
\* checks, then TaskInfo(...), _queued_task_ids.add and task_queue.put (the
\* queue is unbounded, so put never suspends). It returns task_id on every
\* path.
AddTask(task_type, task_id) ==
    /\ IF task_id \in DOMAIN running_tasks
       THEN UNCHANGED <<tasks, execs, _queued_task_ids, task_queue,
                        accepted_stopped>>
       ELSE IF task_id \in _queued_task_ids
       THEN UNCHANGED <<tasks, execs, _queued_task_ids, task_queue,
                        accepted_stopped>>
       ELSE /\ Len(tasks) < MaxTasks
            /\ tasks' = Append(tasks, TaskInfo(task_id, task_type))
            /\ execs' = Append(execs, NoExec)
            /\ _queued_task_ids' = _queued_task_ids \cup {task_id}
            /\ task_queue' = Append(task_queue, Len(tasks) + 1)
            /\ accepted_stopped' =
                   IF _running THEN accepted_stopped
                   ELSE accepted_stopped \cup {Len(tasks) + 1}
    /\ UNCHANGED <<_running, scheduler_running, _queue_loop, running_tasks,
                   task_history, _task_handlers, workers, _worker_task,
                   stop_pc, stop_wait, stop_pending, completed>>

\* The decimal digits, for str() of a number
Digits == <<"0", "1", "2", "3", "4", "5", "6", "7", "8", "9">>

\* str(datetime.now().timestamp()) at the clock reading `clock`
TimestampStr(clock) == Digits[clock + 1] \o ".0"

\* f"{task_type}_{datetime.now().timestamp()}"
AutoId(task_type, clock) == task_type \o "_" \o TimestampStr(clock)

\* add_task(task_type) with task_id omitted
AddTaskAuto(task_type) == AddTask(task_type, AutoId(task_type, now))

\* ---------------------------------------------------------------- cancel
\* asyncio.Task.cancel() on the execution of TaskInfo t: a finished task
\* ignores it, any other gets CancelledError at its next step.
CancelExec(ex, t) ==
    IF ex[t].step = "done" THEN ex
    ELSE [ex EXCEPT ![t].must_cancel = TRUE]

\* The value stop_task(task_id) returns.
StopTaskResult(task_id) == task_id \in DOMAIN running_tasks

\* stop_task that also withdraws a task that is only queued.
StopTaskAlsoQueued(task_id) ==
    /\ IF StopTaskResult(task_id)
       THEN /\ execs' = CancelExec(execs, running_tasks[task_id])
            /\ UNCHANGED <<task_queue, _queued_task_ids>>
       ELSE /\ task_queue' = SelectSeq(task_queue,
                    LAMBDA t : tasks[t].task_id # task_id)
            /\ _queued_task_ids' = _queued_task_ids \ {task_id}
            /\ UNCHANGED execs
    /\ UNCHANGED <<_running, scheduler_running, _queue_loop, running_tasks,
                   task_history, _task_handlers, tasks, workers,
                   _worker_task, stop_pc, stop_wait, stop_pending, completed,
                   accepted_stopped>>

\* stop_task(task_id)
StopTask(task_id) ==
    /\ IF StopTaskResult(task_id)
       THEN execs' = CancelExec(execs, running_tasks[task_id])
       ELSE UNCHANGED execs
    /\ UNCHANGED <<_running, scheduler_running, _queue_loop, task_queue,
                   _queued_task_ids, running_tasks, task_history,
                   _task_handlers, tasks, workers, _worker_task, stop_pc,
                   stop_wait, stop_pending, completed, accepted_stopped>>

\* list(d.values()) of a dict: list(self.running_tasks.items()) in stop()
\* as a sequence of TaskInfo references, the jobs of a job store.
RECURSIVE ItemsOf(_)
ItemsOf(f) ==
    IF DOMAIN f = {} THEN <<>>
    ELSE LET k == CHOOSE x \in DOMAIN f : TRUE
         IN  <<f[k]>> \o ItemsOf(DropKey(f, k))

\* ---------------------------------------------------------------- scheduler
\* What the calls of the service on its AsyncIOScheduler do (APScheduler 3).
\* _real_add_job with replace_existing=True: the job takes the place of the
\* one the store holds under its id.
RealAddJob(store, job) == PutKey(store, job.id, job)

\* scheduler.start(): every pending job is really added, in the order of
\* the list.
RECURSIVE AddPending(_, _)
AddPending(store, pending) ==
    IF pending = <<>> THEN store
    ELSE AddPending(RealAddJob(store, Head(pending)), Tail(pending))

\* scheduler.add_job(..., id=job_id, replace_existing=True): a scheduler
\* that is not started keeps the job in its pending list, whatever the list
\* holds; a started one really adds it.
SchedulerAddJob(job) ==
    /\ jobs_made' = jobs_made + 1
    /\ IF scheduler_running
       THEN /\ jobstore' = RealAddJob(jobstore, job)
            /\ UNCHANGED pending_jobs
       ELSE /\ pending_jobs' = Append(pending_jobs, job)
            /\ UNCHANGED jobstore

\* Index of the first pending job with the id, 0 when there is none.
FirstPending(job_id) ==
    IF \E i \in DOMAIN pending_jobs : pending_jobs[i].id = job_id
    THEN CHOOSE i \in DOMAIN pending_jobs :
            /\ pending_jobs[i].id = job_id
            /\ \A j \in 1..(i - 1) : pending_jobs[j].id # job_id
    ELSE 0

\* A sequence without its i-th element
DropAt(q, i) == SubSeq(q, 1, i - 1) \o SubSeq(q, i + 1, Len(q))

\* scheduler.get_jobs(): the pending list of a scheduler that is not
\* started, the content of the job store of a started one.
SchedulerGetJobs ==
    IF scheduler_running THEN ItemsOf(jobstore) ELSE pending_jobs

\* ---------------------------------------------------------------- lifecycle
\* _ensure_queue() without the comparison of the loops: every start() makes
\* a new queue.
EnsureQueueAlways(loop) ==
    /\ task_queue' = <<>>
    /\ _queued_task_ids' = {}
    /\ _queue_loop' = loop

\* _ensure_queue(): under another loop than the one the queue was built for
\* (None at construction), a new queue and a new _queued_task_ids.
EnsureQueue(loop) ==
    IF _queue_loop # loop
    THEN /\ task_queue' = <<>>
         /\ _queued_task_ids' = {}
         /\ _queue_loop' = loop
    ELSE UNCHANGED <<task_queue, _queued_task_ids, _queue_loop>>

\* start() without the `if self._running: return`.
StartNoGuard(loop) ==
    /\ Len(workers) < MaxStarts
    /\ _running' = TRUE
    /\ EnsureQueue(loop)
    /\ scheduler_running' = TRUE
    /\ workers' = Append(workers,
           [pc |-> "created", cur |-> None, must_cancel |-> FALSE])
    /\ jobstore' = AddPending(jobstore, pending_jobs)
    /\ pending_jobs' = <<>>
    /\ _worker_task' = Len(workers) + 1
    /\ UNCHANGED <<running_tasks, task_history, _task_handlers, tasks,
                   execs, stop_pc, stop_wait, stop_pending, completed,
                   accepted_stopped, now, jobs_made, job_result>>

\* start() under event loop `loop`
Start(loop) ==
    IF _running
    THEN UNCHANGED vars
    ELSE /\ Len(workers) < MaxStarts
         /\ _running' = TRUE
         /\ EnsureQueue(loop)
         /\ scheduler_running' = TRUE
         /\ workers' = Append(workers,
                [pc |-> "created", cur |-> None, must_cancel |-> FALSE])
         /\ jobstore' = AddPending(jobstore, pending_jobs)
         /\ pending_jobs' = <<>>
         /\ _worker_task' = Len(workers) + 1
         /\ UNCHANGED <<running_tasks, task_history, _task_handlers, tasks,
                        execs, stop_pc, stop_wait, stop_pending, completed,
                        accepted_stopped, now, jobs_made, job_result>>

\* asyncio.Task.cancel() on worker w. A worker suspended in `await task`
\* hands the request to the task it awaits; otherwise the worker itself gets
\* CancelledError at its next step. A finished worker ignores it.
CancelWorker(wk, w) ==
    IF wk[w].pc \in {"done", "cancelled"} THEN wk
    ELSE IF wk[w].pc = "await" /\ execs[wk[w].cur].step # "done" THEN wk
    ELSE [wk EXCEPT ![w].must_cancel = TRUE]

\* The part of worker w's cancel() that reaches the task it awaits.
CancelAwaited(ex, w) ==
    IF workers[w].pc = "await" /\ ex[workers[w].cur].step # "done"
    THEN CancelExec(ex, workers[w].cur)
    ELSE ex

\* stop(), up to `await self._worker_task`. scheduler.shutdown() shuts the
\* job store down, and the memory job store drops its jobs when shut down.
Stop ==
    IF ~_running
    THEN UNCHANGED vars
    ELSE /\ _running' = FALSE
         /\ scheduler_running' = FALSE
         /\ jobstore' = <<>>
         /\ UNCHANGED <<now, pending_jobs, jobs_made, job_result>>
         /\ workers' = CancelWorker(workers, _worker_task)
         /\ execs' = CancelAwaited(execs, _worker_task)
         /\ stop_pc' = "await_worker"
         /\ stop_wait' = _worker_task
         /\ UNCHANGED <<_queue_loop, task_queue, _queued_task_ids,
                        running_tasks, task_history, _task_handlers, tasks,
                        _worker_task, stop_pending, completed,
                        accepted_stopped>>

\* stop(): one round of `for task_id, task in ...: task.cancel(); await task`
\* over the items still to visit; stop() returns when none is left.
StopVisit(items) ==
    IF items = <<>>
    THEN /\ stop_pc' = "idle"
         /\ stop_wait' = None
         /\ stop_pending' = <<>>
         /\ UNCHANGED execs
    ELSE /\ stop_pc' = "await_task"
         /\ stop_wait' = Head(items)
         /\ stop_pending' = Tail(items)
         /\ execs' = CancelExec(execs, Head(items))

\* stop() that cancels the worker and goes on without awaiting it.
StopAfterWorkerNoAwait ==
    /\ stop_pc = "await_worker"
    /\ StopVisit(ItemsOf(running_tasks))
    /\ UNCHANGED <<_running, scheduler_running, _queue_loop, task_queue,
                   _queued_task_ids, running_tasks, task_history,
                   _task_handlers, tasks, workers, _worker_task, completed,
                   accepted_stopped>>

\* stop() resumes from `await self._worker_task`
StopAfterWorker ==
    /\ stop_pc = "await_worker"
    /\ WorkerFinished(stop_wait)
    /\ StopVisit(ItemsOf(running_tasks))
    /\ UNCHANGED <<_running, scheduler_running, _queue_loop, task_queue,
                   _queued_task_ids, running_tasks, task_history,
                   _task_handlers, tasks, workers, _worker_task, completed,
                   accepted_stopped>>

\* stop() resumes from `await task`. A worker that has ended has emptied
\* running_tasks of the task it awaited, so that stop() calls made one at a
\* time find no item to visit and never suspend here.
StopAfterTask ==
    /\ stop_pc = "await_task"
    /\ ExecFinished(stop_wait)
    /\ StopVisit(stop_pending)
    /\ UNCHANGED <<_running, scheduler_running, _queue_loop, task_queue,
                   _queued_task_ids, running_tasks, task_history,
                   _task_handlers, tasks, workers, _worker_task, completed,
                   accepted_stopped>>

\* ---------------------------------------------------------------- worker
\* First step of _process_queue: cancelled before it ever ran, the task ends
\* cancelled without executing a line; otherwise it evaluates
\* `while self._running` and suspends in wait_for(task_queue.get()).
WorkerBegin(w) ==
    /\ workers[w].pc = "created"
    /\ workers' = [workers EXCEPT
            ![w].pc = IF workers[w].must_cancel THEN "cancelled" ELSE LoopPc,
            ![w].must_cancel = FALSE]
    /\ UNCHANGED <<_running, scheduler_running, _queue_loop, task_queue,
                   _queued_task_ids, running_tasks, task_history,
                   _task_handlers, tasks, execs, _worker_task, stop_pc,
                   stop_wait, stop_pending, completed, accepted_stopped>>

\* wait_for(...) raises CancelledError: `except asyncio.CancelledError: break`
WorkerCancelled(w) ==
    /\ workers[w].pc = "get"
    /\ workers[w].must_cancel
    /\ workers' = [workers EXCEPT ![w].pc = "done", ![w].must_cancel = FALSE]
    /\ UNCHANGED <<_running, scheduler_running, _queue_loop, task_queue,
                   _queued_task_ids, running_tasks, task_history,
                   _task_handlers, tasks, execs, _worker_task, stop_pc,
                   stop_wait, stop_pending, completed, accepted_stopped>>

\* wait_for(...) raises TimeoutError after 1 s: `continue`
WorkerTimeout(w) ==
    /\ workers[w].pc = "get"
    /\ ~workers[w].must_cancel
    /\ task_queue = <<>>
    /\ workers' = [workers EXCEPT ![w].pc = LoopPc]
    /\ UNCHANGED <<_running, scheduler_running, _queue_loop, task_queue,
                   _queued_task_ids, running_tasks, task_history,
                   _task_handlers, tasks, execs, _worker_task, stop_pc,
                   stop_wait, stop_pending, completed, accepted_stopped>>

\* The worker with a queue that hands out its newest item first.
WorkerGetNewest(w) ==
    /\ workers[w].pc = "get"
    /\ ~workers[w].must_cancel
    /\ task_queue # <<>>
    /\ LET t == task_queue[Len(task_queue)]
           id == tasks[t].task_id
       IN  /\ task_queue' = SubSeq(task_queue, 1, Len(task_queue) - 1)
           /\ IF id \in DOMAIN running_tasks
              THEN /\ workers' = [workers EXCEPT ![w].pc = LoopPc]
                   /\ UNCHANGED <<execs, running_tasks>>
              ELSE /\ execs' = [execs EXCEPT ![t].step = "created"]
                   /\ running_tasks' = PutKey(running_tasks, id, t)
                   /\ workers' = [workers EXCEPT ![w].pc = "await",
                                                 ![w].cur = t]
    /\ UNCHANGED <<_running, scheduler_running, _queue_loop,
                   _queued_task_ids, task_history, _task_handlers, tasks,
                   _worker_task, stop_pc, stop_wait, stop_pending, completed,
                   accepted_stopped>>

\* wait_for(...) returns the head of the queue: the `already running` check,
\* then create_task(_execute_task(task_info)), running_tasks[id] = task and
\* the worker suspends in `await task`.
WorkerGet(w) ==
    /\ workers[w].pc = "get"
    /\ ~workers[w].must_cancel
    /\ task_queue # <<>>
    /\ LET t == Head(task_queue)
           id == tasks[t].task_id
       IN  /\ task_queue' = Tail(task_queue)
           /\ IF id \in DOMAIN running_tasks
              THEN /\ workers' = [workers EXCEPT ![w].pc = LoopPc]
                   /\ UNCHANGED <<execs, running_tasks>>
              ELSE /\ execs' = [execs EXCEPT ![t].step = "created"]
                   /\ running_tasks' = PutKey(running_tasks, id, t)
                   /\ workers' = [workers EXCEPT ![w].pc = "await",
                                                 ![w].cur = t]
    /\ UNCHANGED <<_running, scheduler_running, _queue_loop,
                   _queued_task_ids, task_history, _task_handlers, tasks,
                   _worker_task, stop_pc, stop_wait, stop_pending, completed,
                   accepted_stopped>>

\* The worker without the inner `except Exception`: the Exception of the
\* task leaves the loop as a cancellation does.
WorkerResumeExitOnError(w) ==
    /\ workers[w].pc = "await"
    /\ ExecFinished(workers[w].cur)
    /\ LET t == workers[w].cur
           id == tasks[t].task_id
           leaves == workers[w].must_cancel
                        \/ execs[t].outcome \in {"cancelled", "exc"}
       IN  /\ running_tasks' = DropKey(running_tasks, id)
           /\ _queued_task_ids' = _queued_task_ids \ {id}
           /\ workers' = [workers EXCEPT
                   ![w].pc = IF leaves THEN "done" ELSE LoopPc,
                   ![w].cur = None,
                   ![w].must_cancel = FALSE]
    /\ UNCHANGED <<_running, scheduler_running, _queue_loop, task_queue,
                   task_history, _task_handlers, tasks, execs, _worker_task,
                   stop_pc, stop_wait, stop_pending, completed,
                   accepted_stopped>>

\* The worker without the `finally` of `await task`: nothing is cleaned.
WorkerResumeNoCleanup(w) ==
    /\ workers[w].pc = "await"
    /\ ExecFinished(workers[w].cur)
    /\ LET t == workers[w].cur
           cancelled == workers[w].must_cancel
                            \/ execs[t].outcome = "cancelled"
       IN  workers' = [workers EXCEPT
                   ![w].pc = IF cancelled THEN "done" ELSE LoopPc,
                   ![w].cur = None,
                   ![w].must_cancel = FALSE]
    /\ UNCHANGED <<_running, scheduler_running, _queue_loop, task_queue,
                   _queued_task_ids, running_tasks, task_history,
                   _task_handlers, tasks, execs, _worker_task, stop_pc,
                   stop_wait, stop_pending, completed, accepted_stopped>>

\* `await task` ends. CancelledError (the task was cancelled, or the worker
\* was while the task had already finished) passes `except Exception`, runs
\* the `finally` and reaches `except asyncio.CancelledError: break`; any other
\* end, an Exception of the task included, runs the `finally` and goes round
\* the loop.
WorkerResume(w) ==
    /\ workers[w].pc = "await"
    /\ ExecFinished(workers[w].cur)
    /\ LET t == workers[w].cur
           id == tasks[t].task_id
           cancelled == workers[w].must_cancel
                            \/ execs[t].outcome = "cancelled"
       IN  /\ running_tasks' = DropKey(running_tasks, id)
           /\ _queued_task_ids' = _queued_task_ids \ {id}
           /\ workers' = [workers EXCEPT
                   ![w].pc = IF cancelled THEN "done" ELSE LoopPc,
                   ![w].cur = None,
                   ![w].must_cancel = FALSE]
    /\ UNCHANGED <<_running, scheduler_running, _queue_loop, task_queue,
                   task_history, _task_handlers, tasks, execs, _worker_task,
                   stop_pc, stop_wait, stop_pending, completed,
                   accepted_stopped>>

\* ---------------------------------------------------------------- execute
\* The ways a handler body can end: it returns, or raises an Exception (an
\* instance of a subclass of Exception) whose text is msg.
HandlerEnds == {<<"return", "">>} \cup {<<"raise", m>> : m \in ExcMessages}

\* task_info.status = "running"; task_info.started_at = now
Started(ti) == [ti EXCEPT !.status = "running", !.started_at = "set"]

\* The handler's end seen by _execute_task: success and the result, or the
\* `except Exception` branch with error = str(e).
Ended(ti, end) ==
    IF end[1] = "return"
    THEN [ti EXCEPT !.status = "success", !.result = "value"]
    ELSE [ti EXCEPT !.status = "failed", !.error = Str(end[2])]

\* `finally`: task_info.finished_at = now
Finalized(ti) == [ti EXCEPT !.finished_at = "set"]

\* How the asyncio.Task of _execute_task ends for a handler's end: the
\* `except Exception` branch re-raises.
OutcomeOf(end) == IF end[1] = "return" THEN "ok" ELSE "exc"

\* The asyncio.Task of TaskInfo t is over, with the given outcome.
ExecDone(t, outcome) ==
    [execs EXCEPT ![t] = [step |-> "done", must_cancel |-> FALSE,
                          outcome |-> outcome]]

\* `finally`: self.task_history.append(task_info) and the trimming
Record(t) ==
    /\ task_history' = AppendHistory(task_history, t)
    /\ completed' = Append(completed, t)

\* _execute_task with the handler looked up before the `try`: the ValueError
\* of a missing handler leaves the task neither failed nor recorded.
ExecBeginLookupOutsideTry(t) ==
    /\ execs[t].step = "created"
    /\ IF execs[t].must_cancel
       THEN /\ execs' = ExecDone(t, "cancelled")
            /\ UNCHANGED <<tasks, task_history, completed>>
       ELSE IF tasks[t].task_type \notin DOMAIN _task_handlers
       THEN /\ tasks' = [tasks EXCEPT ![t] = Started(@)]
            /\ execs' = ExecDone(t, "exc")
            /\ UNCHANGED <<task_history, completed>>
       ELSE IF IsCoroutineFunction(_task_handlers[tasks[t].task_type])
       THEN /\ tasks' = [tasks EXCEPT ![t] = Started(@)]
            /\ execs' = [execs EXCEPT ![t].step = "awaiting"]
            /\ UNCHANGED <<task_history, completed>>
       ELSE \E end \in HandlerEnds :
                /\ tasks' = [tasks EXCEPT ![t] =
                                Finalized(Ended(Started(@), end))]
                /\ Record(t)
                /\ execs' = ExecDone(t, OutcomeOf(end))
    /\ UNCHANGED <<_running, scheduler_running, _queue_loop, task_queue,
                   _queued_task_ids, running_tasks, _task_handlers, workers,
                   _worker_task, stop_pc, stop_wait, stop_pending,
                   accepted_stopped>>

\* First step of the task of _execute_task(task_info).
ExecBegin(t) ==
    /\ execs[t].step = "created"
    /\ IF execs[t].must_cancel
       THEN \* cancelled before its first step: no line of the body runs
            /\ execs' = ExecDone(t, "cancelled")
            /\ UNCHANGED <<tasks, task_history, completed>>
       ELSE IF tasks[t].task_type \notin DOMAIN _task_handlers
       THEN \* handler is None: ValueError, `except Exception`, `finally`
            /\ tasks' = [tasks EXCEPT ![t] = Finalized(
                    [Started(@) EXCEPT !.status = "failed",
                        !.error = NoHandlerError(tasks[t].task_type)])]
            /\ Record(t)
            /\ execs' = ExecDone(t, "exc")
       ELSE IF IsCoroutineFunction(_task_handlers[tasks[t].task_type])
       THEN \* suspended inside `await handler(**task_info.params)`
            /\ tasks' = [tasks EXCEPT ![t] = Started(@)]
            /\ execs' = [execs EXCEPT ![t].step = "awaiting"]
            /\ UNCHANGED <<task_history, completed>>
       ELSE \* the plain handler runs to its end inside this step
            \E end \in HandlerEnds :
                /\ tasks' = [tasks EXCEPT ![t] =
                                Finalized(Ended(Started(@), end))]
                /\ Record(t)
                /\ execs' = ExecDone(t, OutcomeOf(end))
    /\ UNCHANGED <<_running, scheduler_running, _queue_loop, task_queue,
                   _queued_task_ids, running_tasks, _task_handlers, workers,
                   _worker_task, stop_pc, stop_wait, stop_pending,
                   accepted_stopped>>

\* The task of _execute_task resumes inside `await handler(...)`: with a
\* cancellation requested CancelledError unwinds the handler, passes
\* `except Exception` (it is a BaseException) and runs only the `finally`;
\* otherwise the handler comes to its end.
ExecResume(t) ==
    /\ execs[t].step = "awaiting"
    /\ IF execs[t].must_cancel
       THEN /\ tasks' = [tasks EXCEPT ![t] = Finalized(@)]
            /\ execs' = ExecDone(t, "cancelled")
       ELSE \E end \in HandlerEnds :
                /\ tasks' = [tasks EXCEPT ![t] = Finalized(Ended(@, end))]
                /\ execs' = ExecDone(t, OutcomeOf(end))
    /\ Record(t)
    /\ UNCHANGED <<_running, scheduler_running, _queue_loop, task_queue,
                   _queued_task_ids, running_tasks, _task_handlers, workers,
                   _worker_task, stop_pc, stop_wait, stop_pending,
                   accepted_stopped>>

\* ---------------------------------------------------------------- jobs
JobIds == {"j1", "j2"}

\* A cron expression of n fields "*" separated by one blank, as the sequence
\* of its characters.
RECURSIVE Stars(_)
Stars(n) == IF n = 1 THEN <<"*">> ELSE <<"*", " ">> \o Stars(n - 1)

\* The cron expressions add_cron_job is given: 4 to 7 fields, 5 fields with
\* blanks around and doubled, 5 fields of which one is no cron field.
CronExprs ==
    {Stars(n) : n \in 4..7}
        \cup {<<" ", "*", " ", " ">> \o Stars(4) \o <<" ">>}
        \cup {<<"x", " ">> \o Stars(4)}

\* The values of an Optional[int] argument that is set.
IntervalValues == {0, 1}
\* An Optional[int] argument left at its default None.
Unset == -1

\* str.split(): the maximal runs of non-blank characters
RECURSIVE SplitFrom(_, _, _)
SplitFrom(cs, word, acc) ==
    IF cs = <<>>
    THEN IF word = <<>> THEN acc ELSE Append(acc, word)
    ELSE IF Head(cs) = " "
    THEN SplitFrom(Tail(cs), <<>>,
                   IF word = <<>> THEN acc ELSE Append(acc, word))
    ELSE SplitFrom(Tail(cs), Append(word, Head(cs)), acc)

Split(cs) == SplitFrom(cs, <<>>, <<>>)

\* The exceptions of the calls on the scheduled jobs, by their text.
CronCountError == "ValueError: Invalid cron expression. Expected 5 or 6 fields."
CronFieldError == "ValueError: Unrecognized expression"
IntervalError ==
    "ValueError: At least one of seconds, minutes, or hours must be specified"

\* CronTrigger raises ValueError for a field that is no cron expression.
CronTriggerRaises(fields) == \E i \in DOMAIN fields : fields[i] # <<"*">>

\* The Job object scheduler.add_job makes.
Job(job_id, kind, arg, task_type) ==
    [id |-> job_id, kind |-> kind, arg |-> arg, task_type |-> task_type,
     seq |-> jobs_made + 1]

\* A call on the scheduled jobs that raised: nothing but the exception.
Raised(exc) ==
    /\ job_result' = exc
    /\ UNCHANGED <<now, pending_jobs, jobstore, jobs_made>>

\* add_cron_job that counts the fields after the job is added.
AddCronJobCheckLast(job_id, cron_expression, task_type) ==
    LET fields == Split(cron_expression)
    IN  /\ jobs_made < MaxJobs
        /\ SchedulerAddJob(Job(job_id, "cron", Len(fields), task_type))
        /\ job_result' = IF Len(fields) \in {5, 6}
                               /\ ~CronTriggerRaises(fields)
                         THEN "Job" ELSE CronCountError
        /\ UNCHANGED <<now, svars>>

\* add_cron_job(job_id, cron_expression, task_type)
AddCronJob(job_id, cron_expression, task_type) ==
    LET fields == Split(cron_expression)
    IN  /\ IF Len(fields) \notin {5, 6}
           THEN Raised(CronCountError)
           ELSE IF CronTriggerRaises(fields)
           THEN Raised(CronFieldError)
           ELSE /\ jobs_made < MaxJobs
                /\ SchedulerAddJob(Job(job_id, "cron", Len(fields),
                                       task_type))
                /\ job_result' = "Job"
                /\ UNCHANGED now
        /\ UNCHANGED svars

\* trigger_kwargs: the arguments that are not None
TriggerKwargs(seconds, minutes, hours) ==
    {a \in {<<"seconds", seconds>>, <<"minutes", minutes>>,
            <<"hours", hours>>} : a[2] # Unset}

\* IntervalTrigger(**trigger_kwargs): the length of the interval in seconds;
\* the trigger turns a length of 0 into 1 second.
IntervalTrigger(kwargs) ==
    LET of(name, unit) ==
            IF \E a \in kwargs : a[1] = name
            THEN unit * (CHOOSE a \in kwargs : a[1] = name)[2]
            ELSE 0
        length == of("seconds", 1) + of("minutes", 60) + of("hours", 3600)
    IN  IF length = 0 THEN 1 ELSE length

\* add_interval_job without the `if not trigger_kwargs` check.
AddIntervalJobNoCheck(job_id, seconds, minutes, hours, task_type) ==
    LET kwargs == TriggerKwargs(seconds, minutes, hours)
    IN  /\ jobs_made < MaxJobs
        /\ SchedulerAddJob(Job(job_id, "interval",
                               IntervalTrigger(kwargs), task_type))
        /\ job_result' = "Job"
        /\ UNCHANGED <<now, svars>>

\* add_interval_job(job_id, seconds, minutes, hours, task_type)
AddIntervalJob(job_id, seconds, minutes, hours, task_type) ==
    LET kwargs == TriggerKwargs(seconds, minutes, hours)
    IN  /\ IF kwargs = {}
           THEN Raised(IntervalError)
           ELSE /\ jobs_made < MaxJobs
                /\ SchedulerAddJob(Job(job_id, "interval",
                                       IntervalTrigger(kwargs), task_type))
                /\ job_result' = "Job"
                /\ UNCHANGED now
        /\ UNCHANGED svars

\* add_date_job(job_id, run_date, task_type)
AddDateJob(job_id, task_type) ==
    /\ jobs_made < MaxJobs
    /\ SchedulerAddJob(Job(job_id, "date", 0, task_type))
    /\ job_result' = "Job"
    /\ UNCHANGED <<now, svars>>

\* remove_job(job_id): scheduler.remove_job takes the job out of the store
\* of a started scheduler, the first pending job with the id out of the list
\* of one that is not, and raises JobLookupError when it finds none; any
\* Exception makes remove_job return False.
RemoveJob(job_id) ==
    /\ IF scheduler_running
       THEN IF job_id \in DOMAIN jobstore
            THEN /\ jobstore' = DropKey(jobstore, job_id)
                 /\ job_result' = "True"
            ELSE /\ job_result' = "False"
                 /\ UNCHANGED jobstore
       ELSE IF FirstPending(job_id) # 0
            THEN /\ pending_jobs' = DropAt(pending_jobs,
                                           FirstPending(job_id))
                 /\ job_result' = "True"
            ELSE /\ job_result' = "False"
                 /\ UNCHANGED pending_jobs
    /\ IF scheduler_running
       THEN UNCHANGED pending_jobs ELSE UNCHANGED jobstore
    /\ UNCHANGED <<now, jobs_made, svars>>

\* get_jobs()
GetJobs == SchedulerGetJobs

\* ---------------------------------------------------------------- system
\* Task ids are interchangeable: the first id a caller uses is called "A",
\* and "B" is an id used once "A" has been.
IdInUse(id) == id = "A" \/ \E t \in DOMAIN tasks : tasks[t].task_id = "A"

\* start() and stop() come from the owner of the service's lifecycle, one
\* call at a time: no start() or stop() is issued while a stop() has not
\* returned. Event loops are interchangeable: the first one a start() runs
\* under is called 1.
Next ==
    \/ \E ty \in TaskTypes, h \in Handlers :
          RegisterHandler(ty, h) /\ UNCHANGED <<jvars, dvars>>
    \/ \E ty \in TaskTypes, id \in TaskIds :
          IdInUse(id) /\ AddTask(ty, id) /\ UNCHANGED <<jvars, dvars>>
    \/ \E id \in TaskIds :
          IdInUse(id) /\ StopTask(id) /\ UNCHANGED <<jvars, dvars>>
    \/ \E l \in Loops :
          /\ stop_pc = "idle" /\ l <= _queue_loop + 1 /\ Start(l)
          /\ UNCHANGED dvars
    \/ stop_pc = "idle" /\ Stop /\ UNCHANGED dvars
    \/ StopAfterWorker /\ UNCHANGED <<jvars, dvars>>
    \/ \E w \in DOMAIN workers :
          /\ WorkerBegin(w) \/ WorkerCancelled(w) \/ WorkerTimeout(w)
                \/ WorkerGet(w) \/ WorkerResume(w)
          /\ UNCHANGED <<jvars, dvars>>
    \/ \E t \in DOMAIN tasks :
          (ExecBegin(t) \/ ExecResume(t)) /\ UNCHANGED <<jvars, dvars>>

Spec == Init /\ [][Next]_vars

\* The asynchronous tasks take their steps: the event loop runs every ready
\* callback, a handler that is awaited comes to an end, and a cancelled one
\* unwinds.
Progress ==
    /\ \/ StopAfterWorker
       \/ \E w \in DOMAIN workers :
             WorkerBegin(w) \/ WorkerCancelled(w) \/ WorkerGet(w)
                 \/ WorkerResume(w)
       \/ \E t \in DOMAIN tasks : ExecBegin(t) \/ ExecResume(t)
    /\ UNCHANGED <<jvars, dvars>>

FairSpec == Spec /\ WF_vars(Progress)

\* The scheduler runs a job of its store that is due: _schedule_task calls
\* add_task(task_type) without a task id; a job with a date trigger has no
\* next run and leaves the store.
Fire(job_id) ==
    /\ scheduler_running
    /\ job_id \in DOMAIN jobstore
    /\ AddTaskAuto(jobstore[job_id].task_type)
    /\ jobstore' = IF jobstore[job_id].kind = "date"
                   THEN DropKey(jobstore, job_id) ELSE jobstore
    /\ UNCHANGED <<now, pending_jobs, jobs_made, job_result>>

\* The clock moves on.
Tick ==
    /\ now < MaxClock
    /\ now' = now + 1
    /\ UNCHANGED <<svars, pending_jobs, jobstore, jobs_made, job_result>>

\* The calls on the scheduled jobs, with the lifecycle of the service that
\* starts and shuts the scheduler down, under one event loop. No task is
\* submitted here.
JobNext ==
    \/ \E id \in JobIds, e \in CronExprs, ty \in TaskTypes :
          AddCronJob(id, e, ty) /\ UNCHANGED dvars
    \/ \E id \in JobIds, ty \in TaskTypes :
          \E sec \in IntervalValues \cup {Unset},
             min \in {0, Unset}, hrs \in {0, Unset} :
              AddIntervalJob(id, sec, min, hrs, ty) /\ UNCHANGED dvars
    \/ \E id \in JobIds, ty \in TaskTypes :
          AddDateJob(id, ty) /\ UNCHANGED dvars
    \/ \E id \in JobIds : RemoveJob(id) /\ UNCHANGED dvars
    \/ stop_pc = "idle" /\ Start(1) /\ UNCHANGED dvars
    \/ stop_pc = "idle" /\ Stop /\ UNCHANGED dvars
    \/ StopAfterWorker /\ UNCHANGED <<jvars, dvars>>
    \/ \E w \in DOMAIN workers :
          /\ WorkerBegin(w) \/ WorkerCancelled(w) \/ WorkerTimeout(w)
          /\ UNCHANGED <<jvars, dvars>>

JobSpec == Init /\ [][JobNext]_vars

\* The submissions without a task id, by a caller or by a job the scheduler
\* runs, with the clock and the lifecycle of the service. The worker is
\* started and stopped but takes nothing from the queue here: what it does
\* with a task is in Next.
AutoNext ==
    \/ \E ty \in TaskTypes : AddTaskAuto(ty) /\ UNCHANGED <<jvars, dvars>>
    \/ \E id \in JobIds : Fire(id) /\ UNCHANGED dvars
    \/ Tick /\ UNCHANGED dvars
    \/ \E id \in JobIds, ty \in TaskTypes :
          AddIntervalJob(id, 2, Unset, Unset, ty) /\ UNCHANGED dvars
    \/ \E id \in JobIds, ty \in TaskTypes :
          AddDateJob(id, ty) /\ UNCHANGED dvars
    \/ \E l \in Loops :
          /\ stop_pc = "idle" /\ l <= _queue_loop + 1 /\ Start(l)
          /\ UNCHANGED dvars
    \/ stop_pc = "idle" /\ Stop /\ UNCHANGED dvars
    \/ StopAfterWorker /\ UNCHANGED <<jvars, dvars>>
    \/ \E w \in DOMAIN workers :
          /\ WorkerBegin(w) \/ WorkerCancelled(w) \/ WorkerTimeout(w)
          /\ UNCHANGED <<jvars, dvars>>

AutoSpec == Init /\ [][AutoNext]_vars

\* Next with start() called at any time, also while a stop() has not
\* returned; one stop() at a time. A stop() that is overtaken by a start()
\* finds the running set of the new worker and suspends in `await task`.
RaceNext ==
    \/ \E ty \in TaskTypes, h \in Handlers :
          RegisterHandler(ty, h) /\ UNCHANGED <<jvars, dvars>>
    \/ \E ty \in TaskTypes, id \in TaskIds :
          IdInUse(id) /\ AddTask(ty, id) /\ UNCHANGED <<jvars, dvars>>
    \/ \E id \in TaskIds :
          IdInUse(id) /\ StopTask(id) /\ UNCHANGED <<jvars, dvars>>
    \/ \E l \in Loops : l <= _queue_loop + 1 /\ Start(l) /\ UNCHANGED dvars
    \/ stop_pc = "idle" /\ Stop /\ UNCHANGED dvars
    \/ StopAfterWorker /\ UNCHANGED <<jvars, dvars>>
    \/ StopAfterTask /\ UNCHANGED <<jvars, dvars>>
    \/ \E w \in DOMAIN workers :
          /\ WorkerBegin(w) \/ WorkerCancelled(w) \/ WorkerTimeout(w)
                \/ WorkerGet(w) \/ WorkerResume(w)
          /\ UNCHANGED <<jvars, dvars>>
    \/ \E t \in DOMAIN tasks :
          (ExecBegin(t) \/ ExecResume(t)) /\ UNCHANGED <<jvars, dvars>>

SpecRace == Init /\ [][RaceNext]_vars

\* ---------------------------------------------------------------- db tasks
\* Task(task_type, priority, params, status="pending") once committed and
\* refreshed: the columns run_task and cancel_task write.
NewRow ==
    [status |-> "pending", progress |-> 0, started_at |-> "None",
     completed_at |-> "None", error_message |-> "None"]

\* TaskService.create_task(task_in): a new row under the next id.
CreateTask ==
    /\ Len(db_tasks) < MaxRows
    /\ db_tasks' = Append(db_tasks, NewRow)
    /\ UNCHANGED <<runners, cancel_result>>

\* TaskService.cancel_task(task_id): False for a missing row and for a task
\* that is completed, failed or cancelled; otherwise the row is committed as
\* cancelled and the call returns True.
CancelTask(task_id) ==
    /\ IF task_id \notin DOMAIN db_tasks
       THEN cancel_result' = "False" /\ UNCHANGED db_tasks
       ELSE IF db_tasks[task_id].status \in {"completed", "failed", "cancelled"}
       THEN cancel_result' = "False" /\ UNCHANGED db_tasks
       ELSE /\ db_tasks' = [db_tasks EXCEPT
                    ![task_id].status = "cancelled",
                    ![task_id].completed_at = "set",
                    ![task_id].error_message = "Cancelled by user"]
            /\ cancel_result' = "True"
    /\ UNCHANGED runners

\* background_tasks.add_task(TaskRunner.run_task, task_id): the call is made
\* and runs later.
RunTask(task_id) ==
    /\ runners[task_id].pc = "none"
    /\ runners' = [runners EXCEPT ![task_id].pc = "scheduled"]
    /\ UNCHANGED <<db_tasks, cancel_result>>

\* run_task up to its first await: the row is looked up; a missing row ends
\* the call, any other is committed as running, whatever its status was.
RunBegin(task_id) ==
    /\ runners[task_id].pc = "scheduled"
    /\ IF task_id \notin DOMAIN db_tasks
       THEN /\ runners' = [runners EXCEPT ![task_id].pc = "done"]
            /\ UNCHANGED db_tasks
       ELSE /\ db_tasks' = [db_tasks EXCEPT
                    ![task_id].status = "running",
                    ![task_id].started_at = "set",
                    ![task_id].progress = 0]
            /\ runners' = [runners EXCEPT ![task_id] =
                               [pc |-> "check", i |-> 1]]
    /\ UNCHANGED cancel_result

\* Top of an iteration of the default processing: db.expire and db.refresh
\* read the committed row; a cancelled task ends the call, any other goes
\* into asyncio.sleep.
RunCheck(task_id) ==
    /\ runners[task_id].pc = "check"
    /\ runners' = [runners EXCEPT ![task_id].pc =
           IF db_tasks[task_id].status = "cancelled" THEN "done"
           ELSE "sleep"]
    /\ UNCHANGED <<db_tasks, cancel_result>>

\* task.status = 'completed', completed_at, progress = 100 and db.commit():
\* the UPDATE writes the three columns whatever the row holds.
Completed(row) ==
    [row EXCEPT !.status = "completed", !.completed_at = "set",
                !.progress = 100]

\* The iteration goes on after asyncio.sleep: the progress is set, and
\* committed with a broadcast after every CommitEvery-th iteration (the
\* UPDATE writes the progress alone). After the last iteration the task is
\* completed, in this step when no broadcast is awaited before.
RunProgress(task_id) ==
    /\ runners[task_id].pc = "sleep"
    /\ LET i == runners[task_id].i
       IN  IF i % CommitEvery = 0
           THEN /\ db_tasks' = [db_tasks EXCEPT
                        ![task_id].progress = (i * 100) \div total]
                /\ runners' = [runners EXCEPT ![task_id] =
                        IF i < total THEN [pc |-> "check", i |-> i + 1]
                        ELSE [pc |-> "finish", i |-> i]]
           ELSE IF i < total
           THEN /\ runners' = [runners EXCEPT ![task_id] =
                                   [pc |-> "check", i |-> i + 1]]
                /\ UNCHANGED db_tasks
           ELSE /\ db_tasks' = [db_tasks EXCEPT ![task_id] = Completed(@)]
                /\ runners' = [runners EXCEPT ![task_id].pc = "done"]
    /\ UNCHANGED cancel_result

\* The end of run_task after the broadcast of the last iteration.
RunFinish(task_id) ==
    /\ runners[task_id].pc = "finish"
    /\ db_tasks' = [db_tasks EXCEPT ![task_id] = Completed(@)]
    /\ runners' = [runners EXCEPT ![task_id].pc = "done"]
    /\ UNCHANGED cancel_result

\* The database-backed tasks: rows are created, cancelled and run in the
\* background, each run_task call between its awaits in one step. The
\* calls on the database succeed.
DbNext ==
    \/ CreateTask /\ UNCHANGED <<svars, jvars>>
    \/ \E id \in RowIds : CancelTask(id) /\ UNCHANGED <<svars, jvars>>
    \/ \E id \in RowIds : RunTask(id) /\ UNCHANGED <<svars, jvars>>
    \/ \E id \in RowIds : RunBegin(id) /\ UNCHANGED <<svars, jvars>>
    \/ \E id \in RowIds : RunCheck(id) /\ UNCHANGED <<svars, jvars>>
    \/ \E id \in RowIds : RunProgress(id) /\ UNCHANGED <<svars, jvars>>
    \/ \E id \in RowIds : RunFinish(id) /\ UNCHANGED <<svars, jvars>>

DbSpec == Init /\ [][DbNext]_vars

\* ---------------------------------------------------------------- views
\* The TaskInfo objects the queue holds.
QueuedRefs == {task_queue[i] : i \in DOMAIN task_queue}
\* The TaskInfo objects whose asyncio.Task is in running_tasks.
RunningRefs == {running_tasks[id] : id \in DOMAIN running_tasks}
\* A TaskInfo that is queued or running.
InFlight(t) == t \in QueuedRefs \/ t \in RunningRefs
\* The last n elements of a sequence.
LastN(q, n) == IF Len(q) <= n THEN q ELSE SubSeq(q, Len(q) - n + 1, Len(q))

\* get_stats(), without the scheduler's jobs
GetStats ==
    [running |-> _running,
     running_tasks |-> Cardinality(DOMAIN running_tasks),
     queue_size |-> Len(task_queue),
     history_size |-> Len(task_history)]

\* The values get_task_history is given for task_type: None, the empty
\* text, a type that has tasks and one that has none.
HistoryFilters == {"None", "", "job", "other"}
\* The largest `limit` get_task_history is called with.
MaxLimit == 2

\* Python truth value of an Optional[str]
Truthy(x) == x \notin {"None", ""}

\* Python h[start:] for an integer start of either sign
SliceFrom(h, start) ==
    LET from == IF start < 0
                THEN (IF Len(h) + start < 0 THEN 0 ELSE Len(h) + start)
                ELSE (IF start > Len(h) THEN Len(h) ELSE start)
    IN  SubSeq(h, from + 1, Len(h))

\* get_task_history(task_type, limit): the TaskInfo references it returns
GetTaskHistory(task_type, limit) ==
    LET history ==
            IF Truthy(task_type)
            THEN SelectSeq(task_history,
                           LAMBDA t : tasks[t].task_type = task_type)
            ELSE task_history
    IN  SliceFrom(history, 0 - limit)

\* ---------------------------------------------------------------- claims

\* C1: in every reachable state at most one TaskInfo per task id is queued
\* or running, so a second submission of an id in flight has created nothing.
C1_OneInFlightPerId ==
    \A id \in TaskIds :
        Cardinality({t \in DOMAIN tasks :
                        tasks[t].task_id = id /\ InFlight(t)}) <= 1

\* C1's case: "A" is running and "B" is queued behind it, so that add_task
\* of either id meets one of the two duplicate checks.
C1_Witness ==
    /\ Len(tasks) = 2
    /\ tasks[1].task_id = "A" /\ execs[1].step = "awaiting"
    /\ tasks[2].task_id = "B" /\ 2 \in QueuedRefs
    /\ "A" \in DOMAIN running_tasks /\ "B" \in _queued_task_ids

\* The executions in progress: made by create_task and not over.
ActiveExecs == {t \in DOMAIN tasks : execs[t].step \in {"created", "awaiting"}}

\* A sequence of TaskInfo references in the order of their creation.
InSubmissionOrder(q) == \A i, j \in DOMAIN q : i < j => q[i] < q[j]

\* C2: tasks are executed one at a time and in the order of their submission:
\* no execution starts while an older TaskInfo is still queued, at most one
\* execution is in progress, and the appends to the history (hence the
\* history itself) are in submission order.
C2_Fifo ==
    /\ Cardinality(ActiveExecs) <= 1
    /\ \A t \in DOMAIN tasks : \A q \in QueuedRefs :
           execs[t].step # "none" => t < q
    /\ InSubmissionOrder(completed)
    /\ InSubmissionOrder(task_history)

\* C2's case: two tasks with distinct ids, both submitted while the service
\* was running, have run one after the other to the end of their handlers.
C2_Witness ==
    /\ completed = <<1, 2>>
    /\ tasks[1].task_id # tasks[2].task_id
    /\ tasks[1].status = "success" /\ tasks[2].status = "success"
    /\ accepted_stopped = {}

\* C3: the history never holds more than max_history entries, and it is
\* the last max_history finished tasks in the order they finished.
C3_HistoryBound ==
    /\ Len(task_history) <= max_history
    /\ task_history = LastN(completed, max_history)

\* C3's case: more tasks have finished than the history can hold.
C3_Witness ==
    /\ Len(completed) > max_history
    /\ Len(task_history) = max_history

\* Worker w is suspended in `await task` on a task that ended with an
\* Exception, and no cancellation of the worker is pending.
AwaitsFailed(w) ==
    /\ workers[w].pc = "await"
    /\ ExecFinished(workers[w].cur)
    /\ execs[workers[w].cur].outcome = "exc"
    /\ ~workers[w].must_cancel

\* C4: a handler exception does not end the Worker Loop: the worker that
\* awaited a task ended by an Exception goes back to waiting on the queue
\* (never to its end), and every task whose handler returned has status
\* success, whatever failed before it.
C4_FaultIsolation ==
    /\ [][\A w \in DOMAIN workers :
              AwaitsFailed(w) => workers'[w].pc \in {"await", "get"}]_vars
    /\ [](\A t \in DOMAIN tasks :
              execs[t].outcome = "ok" => tasks[t].status = "success")

\* C4's case: the first task failed because its handler raised, and the
\* task submitted after it was executed by the same worker with success.
C4_Witness ==
    /\ Len(workers) = 1
    /\ completed = <<1, 2>>
    /\ execs[1].outcome = "exc" /\ tasks[1].error = "boom"
    /\ tasks[2].status = "success"

\* C5 as stated: a task whose handler raised ends failed with a non-empty
\* error description.
C5_FailedWithError ==
    \A t \in DOMAIN tasks :
        execs[t].outcome = "exc" =>
            /\ tasks[t].status = "failed"
            /\ tasks[t].error \notin {"None", ""}

\* C6: a task that was executed while its type had no handler is failed,
\* its error is the text naming the type, it is finished and was appended to
\* the history; its exception leaves the worker waiting on the queue.
C6_MissingHandler ==
    /\ [](\A t \in DOMAIN tasks :
            (tasks[t].started_at = "set"
                 /\ tasks[t].task_type \notin DOMAIN _task_handlers) =>
                /\ tasks[t].status = "failed"
                /\ tasks[t].error =
                       "No handler registered for task type: "
                           \o tasks[t].task_type
                /\ tasks[t].finished_at = "set"
                /\ \E i \in DOMAIN completed : completed[i] = t)
    /\ [][\A w \in DOMAIN workers :
              (AwaitsFailed(w)
                   /\ tasks[workers[w].cur].task_type
                          \notin DOMAIN _task_handlers) =>
                  workers'[w].pc \in {"await", "get"}]_vars

\* C6's case: a task of a type without handler was accepted and executed,
\* and the worker is back waiting on the queue.
C6_Witness ==
    /\ _task_handlers = <<>>
    /\ Len(tasks) >= 1 /\ tasks[1].status = "failed"
    /\ Len(workers) = 1 /\ workers[1].pc = "get"
    /\ 1 \notin RunningRefs

\* C7: under fair scheduling, an execution in the running set whose
\* cancellation was requested leaves the running set, and an execution that
\* is over and out of the running set never enters it again; get_stats
\* counts exactly the executions of the running set.
C7_CancelRemoves ==
    /\ \A t \in 1..MaxTasks :
           (t \in DOMAIN tasks /\ t \in RunningRefs /\ execs[t].must_cancel)
               ~> (t \notin RunningRefs)
    /\ [][\A t \in DOMAIN tasks :
              (ExecFinished(t) /\ t \notin RunningRefs) =>
                  t \notin RunningRefs']_vars
    /\ [](GetStats.running_tasks = Cardinality(RunningRefs))

\* C7's case: the service was never stopped, stop_task cancelled the running
\* task, the task unwound and its id has left the running set.
C7_Witness ==
    /\ _running /\ Len(workers) = 1
    /\ \E t \in DOMAIN tasks :
           /\ execs[t].outcome = "cancelled"
           /\ tasks[t].finished_at = "set"
           /\ t \notin RunningRefs
           /\ GetStats.running_tasks = 0

\* The last start() or stop() call was a stop() on a running service, and
\* it has returned.
StopReturned == stop_pc = "idle" /\ ~_running /\ Len(workers) > 0

\* C8: when stop() has returned every worker has ended, no execution is in
\* progress, the running set is empty, and the service and its scheduler
\* report not running; stop() requests the cancellation of every execution
\* in progress; and under fair scheduling every stop() returns.
C8_StopQuiesces ==
    /\ [](StopReturned =>
            /\ \A w \in DOMAIN workers : WorkerFinished(w)
            /\ ActiveExecs = {}
            /\ DOMAIN running_tasks = {}
            /\ ~scheduler_running
            /\ GetStats.running = FALSE /\ GetStats.running_tasks = 0)
    /\ [][(_running /\ ~_running') =>
              \A t \in ActiveExecs : execs'[t].must_cancel]_vars
    /\ (stop_pc # "idle") ~> (stop_pc = "idle")

\* C8's case: stop() has returned after cancelling a task that was inside
\* its handler.
C8_Witness ==
    /\ StopReturned
    /\ \E t \in DOMAIN tasks :
           /\ execs[t].outcome = "cancelled"
           /\ tasks[t].finished_at = "set"
    /\ \A w \in DOMAIN workers : WorkerFinished(w)

C10_StartIdempotent ==
    [][_running =>
          /\ Len(workers') = Len(workers)
          /\ _worker_task' = _worker_task
          /\ _queue_loop' = _queue_loop
          /\ scheduler_running' = scheduler_running \/ ~_running'
          /\ \A l \in Loops : Start(l) => UNCHANGED vars]_vars

\* C10's case: the service is running, its worker awaits a task and another
\* is queued: the state of a second start().
C10_Witness ==
    /\ _running /\ Len(workers) = 1 /\ Len(workers) < MaxStarts
    /\ workers[1].pc = "await"
    /\ task_queue # <<>>
    /\ ENABLED Start(1)

\* C11: stop_task answers true exactly for the ids of the running set; for
\* any other id it changes nothing; a cancellation is only ever requested of
\* an execution of the running set, a queued task has no execution and no
\* cancellation request, and it leaves the queue only by being executed or
\* with a queue rebuilt by start(); under fair scheduling a queued task of a
\* running service is executed, unless the service is stopped or its worker
\* has ended.
C11_StopTaskFrame ==
    /\ [][\A id \in TaskIds :
              /\ StopTaskResult(id) <=>
                     \E t \in RunningRefs : tasks[t].task_id = id
              /\ (StopTask(id) /\ ~StopTaskResult(id)) => UNCHANGED vars]_vars
    /\ [][\A t \in DOMAIN execs :
              (~execs[t].must_cancel /\ execs'[t].must_cancel) =>
                  t \in RunningRefs]_vars
    /\ [](\A t \in QueuedRefs : execs[t] = NoExec)
    /\ [][\A t \in QueuedRefs :
              \/ t \in QueuedRefs'
              \/ execs'[t].step = "created"
              \/ _queue_loop' # _queue_loop]_vars
    /\ \A t \in 1..MaxTasks :
           (t \in QueuedRefs /\ _running)
               ~> \/ ~_running
                  \/ WorkerFinished(_worker_task)
                  \/ t \in DOMAIN execs /\ execs[t].step # "none"

\* C11's case: stop_task has requested the cancellation of the running task
\* "A" while "B" is only queued: "B" is still in the queue, untouched.
C11_Witness ==
    /\ _running /\ Len(tasks) = 2
    /\ 1 \in RunningRefs /\ execs[1].must_cancel
    /\ 2 \in QueuedRefs /\ execs[2] = NoExec
    /\ ~StopTaskResult(tasks[2].task_id)

\* C17 as stated: for every limit from 0 on, get_task_history returns at
\* most `limit` tasks, the most recent ones of the history (of the given
\* type when one is given) in the order of the history.
C17_AtMostLimit ==
    \A ty \in HistoryFilters : \A limit \in 0..MaxLimit :
        LET kept == IF Truthy(ty)
                    THEN SelectSeq(task_history,
                                   LAMBDA t : tasks[t].task_type = ty)
                    ELSE task_history
        IN  /\ Len(GetTaskHistory(ty, limit)) <= limit
            /\ GetTaskHistory(ty, limit) = LastN(kept, limit)

\* C19 as stated, in the form a finite run refutes: as long as the service
\* is started its Worker Loop has not ended, whatever stop_task cancelled.
C19_WorkerSurvivesCancel ==
    _running => (_worker_task # None /\ ~WorkerFinished(_worker_task))

\* The ids of the jobs get_jobs() lists.
ListedIds == {GetJobs[i].id : i \in DOMAIN GetJobs}

\* A step that leaves the scheduled jobs as they are.
JobsUnchanged ==
    /\ pending_jobs' = pending_jobs
    /\ jobstore' = jobstore
    /\ jobs_made' = jobs_made
    /\ GetJobs' = GetJobs

\* The expressions given to add_cron_job that have neither 5 nor 6 fields:
\* here those of 4 and of 7.
WrongCountExprs == {Stars(4), Stars(7)}

\* C12: add_cron_job with an expression that does not split into 5 or 6
\* fields raises ValueError and leaves the scheduled jobs as they are (the
\* job registered under the same id included); and every registered cron job
\* was made from 5 or 6 fields.
C12_CronValidation ==
    /\ [][\A id \in JobIds, e \in WrongCountExprs, ty \in TaskTypes :
              AddCronJob(id, e, ty) =>
                  (job_result' = CronCountError /\ JobsUnchanged)]_vars
    /\ [](\A i \in DOMAIN GetJobs :
              GetJobs[i].kind = "cron" => GetJobs[i].arg \in {5, 6})

\* C12's case: add_cron_job has just failed on the number of fields while
\* a job registered before is still listed.
C12_Witness ==
    /\ job_result = CronCountError
    /\ jobs_made = 1 /\ Len(GetJobs) = 1
    /\ GetJobs[1].seq = 1

\* C13: add_interval_job with seconds, minutes and hours all unset raises
\* ValueError and leaves the scheduled jobs as they are.
C13_IntervalUnset ==
    [][\A id \in JobIds, ty \in TaskTypes :
          AddIntervalJob(id, Unset, Unset, Unset, ty) =>
              (job_result' = IntervalError /\ JobsUnchanged)]_vars

\* C13's case: add_interval_job has just failed for want of any component,
\* with a job registered before.
C13_Witness ==
    /\ job_result = IntervalError
    /\ jobs_made = 1 /\ Len(GetJobs) = 1

\* C14 as stated: add_interval_job whose provided components are all zero
\* fails validation and registers no job.
C14_IntervalZero ==
    [][\A id \in JobIds, ty \in TaskTypes :
          \A sec \in {0, Unset}, min \in {0, Unset}, hrs \in {0, Unset} :
              (<<sec, min, hrs>> # <<Unset, Unset, Unset>>
                   /\ AddIntervalJob(id, sec, min, hrs, ty)) =>
                  (job_result' = IntervalError /\ JobsUnchanged)]_vars

\* C15 as stated: whatever was registered, before or after start(),
\* get_jobs() never lists two jobs with the same id.
C15_OneJobPerId ==
    \A i, j \in DOMAIN GetJobs :
        i # j => GetJobs[i].id # GetJobs[j].id

\* C18 as stated: remove_job answers true or false; for an id that is not
\* listed it answers false and leaves the scheduled jobs as they are; for a
\* listed id it answers true, the id is no longer listed and the jobs of
\* the other ids are listed as before.
C18_RemoveJob ==
    [][\A id \in JobIds :
          RemoveJob(id) =>
              IF id \in ListedIds
              THEN /\ job_result' = "True"
                   /\ ListedIds' = ListedIds \ {id}
              ELSE /\ job_result' = "False"
                   /\ JobsUnchanged]_vars

\* C16: an add_task call with task_id omitted always creates a new Task: the
\* id it derives from the task type and the reading of the clock is never
\* one the duplicate checks of add_task reject, also when an earlier
\* submission of the type was made at the same reading of the clock.
C16_AutoIdFresh ==
    \A ty \in TaskTypes :
        AutoId(ty, now) \notin (DOMAIN running_tasks \cup _queued_task_ids)

\* The workers inside their loop: begun or about to begin, not ended, and
\* with no cancellation of their own to take at their next step.
ActiveWorkers ==
    {w \in DOMAIN workers : ~WorkerFinished(w) /\ ~workers[w].must_cancel}

\* C20: at most one task body executes at a time, also when start() is
\* called while a stop() has not returned: at most one Worker Loop is
\* active, the running set has at most one element, and at most one task
\* whose execution is not over has the status running.
C20_OneAtATime ==
    /\ Cardinality(ActiveWorkers) <= 1
    /\ Cardinality(DOMAIN running_tasks) <= 1
    /\ Cardinality({t \in ActiveExecs : tasks[t].status = "running"}) <= 1

\* The TaskInfo objects the history holds.
HistoryRefs == {task_history[i] : i \in DOMAIN task_history}

\* C21: every task in the history is finished: its status is success or
\* failed and its finished_at is set, also when stop_task() or stop()
\* interrupted its execution.
C21_HistoryFinished ==
    \A t \in HistoryRefs :
        /\ tasks[t].status \in {"success", "failed"}
        /\ tasks[t].finished_at = "set"

\* The steps a TaskInfo may take from a to b: the status goes from pending to
\* running and from there to success or failed (a step that runs a plain
\* handler to its end is both at once), started_at is assigned with the
\* first, finished_at with the second, and a finished or recorded TaskInfo
\* stays as it is.
StatusStep(a, b) ==
    a.status # b.status =>
        \/ a.status = "pending" /\ b.status \in {"running", "success", "failed"}
        \/ a.status = "running" /\ b.status \in {"success", "failed"}

StartedOnce(a, b) ==
    a.started_at # b.started_at =>
        a.started_at = "None" /\ a.status = "pending" /\ b.status # "pending"

FinishedOnce(a, b) ==
    a.finished_at # b.finished_at =>
        /\ a.finished_at = "None"
        /\ a.status \notin {"success", "failed"}
        /\ b.status \in {"success", "failed"}

Frozen(t, a, b) ==
    (a.status \in {"success", "failed"} \/ t \in HistoryRefs) => b = a

\* C22: a task goes pending -> running -> success or failed only; started_at
\* is assigned once, when it leaves pending; finished_at is assigned once,
\* when it becomes success or failed; a task that is success or failed, or is
\* in the history, never changes again.
C22_Lifecycle ==
    [][\A t \in DOMAIN tasks :
          /\ StatusStep(tasks[t], tasks'[t])
          /\ StartedOnce(tasks[t], tasks'[t])
          /\ FinishedOnce(tasks[t], tasks'[t])
          /\ Frozen(t, tasks[t], tasks'[t])]_vars

\* C23: the set of queued ids and the set of running ids are disjoint: an id
\* leaves the queued set when its task starts running.
C23_QueuedRunningDisjoint == _queued_task_ids \cap DOMAIN running_tasks = {}

\* TaskInfo t was submitted again after it was recorded: a younger TaskInfo
\* with its id is queued or has an execution that is not over.
Resubmitted(t) ==
    \E u \in DOMAIN tasks :
        /\ u > t
        /\ tasks[u].task_id = tasks[t].task_id
        /\ (u \in QueuedRefs \/ u \in ActiveExecs)

\* C24: the id of a task in the history is in neither the queued set nor the
\* running set, unless the id was submitted again after the task was
\* recorded; so an add_task of the id made at any time after the task was
\* appended to the history creates a new task.
C24_RecordedIdFree ==
    \A t \in HistoryRefs :
        tasks[t].task_id \in (_queued_task_ids \cup DOMAIN running_tasks)
            => Resubmitted(t)

\* TaskInfo t has a registered handler that is a plain function.
HasPlainHandler(t) ==
    /\ tasks[t].task_type \in DOMAIN _task_handlers
    /\ ~IsCoroutineFunction(_task_handlers[tasks[t].task_type])

\* C25: a plain (non-coroutine) handler runs off the event loop: the step of
\* _execute_task that starts it suspends with the task running and the body
\* not over, so that the event loop takes other steps (add_task, stop_task,
\* stop, the scheduler) before the handler returns.
C25_PlainHandlerOffloaded ==
    [][\A t \in DOMAIN tasks :
          (HasPlainHandler(t) /\ ~execs[t].must_cancel /\ ExecBegin(t)) =>
              (tasks'[t].status = "running" /\ execs'[t].step = "awaiting")]_vars

\* C26: a start() under another event loop than the one the queue was built
\* for leaves the queue, the set of queued ids and the set of running ids
\* empty: nothing of the old loop is kept.
C26_RebuildOnLoopChange ==
    [][\A l \in Loops :
          (~_running /\ _queue_loop \notin {None, l} /\ Start(l)) =>
              /\ task_queue' = <<>>
              /\ _queued_task_ids' = {}
              /\ running_tasks' = <<>>]_vars

\* C27: no accepted task is lost by starting the service: the first start()
\* (and a later one under the same event loop) finds the tasks accepted while
\* the service was not running still queued, and leaves them in the queue
\* for the worker.
C27_StartKeepsAccepted ==
    [][\A l \in Loops :
          (_queue_loop \in {None, l} /\ Start(l)) =>
              /\ task_queue' = task_queue
              /\ _queued_task_ids' = _queued_task_ids]_vars

\* C28: whenever get_stats() reports the service running, a Worker Loop is
\* alive to take the next task from the queue.
C28_RunningHasWorker == GetStats.running => ActiveWorkers # {}

\* The ids of a set of TaskInfo objects.
IdsOf(refs) == {tasks[t].task_id : t \in refs}

\* C29: the set of queued ids agrees with the queue: an id is in
\* _queued_task_ids exactly when a task with that id waits in the queue or
\* is being executed, so that no stale id makes add_task reject it for ever.
C29_QueuedIdsConsistent == _queued_task_ids = IdsOf(QueuedRefs \cup RunningRefs)

\* C30: the cancellation of a database-backed task is final: once
\* cancel_task has committed the status cancelled, no step of run_task for
\* the task changes the status again.
C30_CancelFinal ==
    [][\A id \in DOMAIN db_tasks :
          db_tasks[id].status = "cancelled" =>
              db_tasks'[id].status = "cancelled"]_vars

====
